---- MODULE Spec2Model ----
(***************************************************************************)
(* Model of network_monitor.py: the ping / traceroute / whois probes and   *)
(* the sampling loop of main() that publishes them as Prometheus gauges.   *)
(*                                                                         *)
(* Text is modelled as a sequence of one-character strings, so that the    *)
(* int(), float(), str() and startswith() calls of the source are          *)
(* computed, not assumed.  A float is held in tenths (12.3 is 123); the    *)
(* -1 sentinel of the source is therefore Fixed(-1).                       *)
(***************************************************************************)
EXTENDS Integers, Sequences, FiniteSets, TLC

VARIABLES
    pc,                              \* position of the main thread
    system_os,                       \* platform.system()
    cycle,                           \* number of loop iterations begun
    current_time,                    \* main(): current_time of the iteration
    internet_ping_result,            \* main(): local
    traceroute_results,              \* main(): local
    application_response_time,       \* main(): local
    packet_loss,                     \* main(): local
    hop_i,                           \* main(): position of `for hop in ...`
    console_output,                  \* main(): local
    exc,                             \* exception that ended the process
    PING_LATENCY_GAUGE,
    PACKET_LOSS_GAUGE,
    TRACEROUTE_HOPS_GAUGE,
    TRACEROUTE_HOP_LATENCY,          \* label -> value
    bytes_received_gauge,
    bytes_transmitted_gauge,
    APPLICATION_RESPONSE_TIME_GAUGE,
    packets_dropped_gauge,
    log,                             \* connection_log.txt
    trace_log,                       \* traceroute_log.txt
    whois_calls,                     \* addresses handed to the whois tool
    sound,                           \* sound file handed to afplay in this iteration
    console,                         \* last report printed
    scraped,                         \* response of a scrape being served
    set_in,                          \* iteration in which each gauge was last set
    published,                       \* hop series when the iteration began
    app_before,                      \* application gauge when the iteration began
    logged,                          \* texts appended to the log in this iteration
    app_ok,                          \* latency of the last successful application probe
    app_fails,                       \* consecutive failed application probes
    call,                            \* argument of a function under test
    ret                              \* its outcome

----------------------------------------------------------------------------
(* Text helpers *)

None == "None"

Digits == <<"0", "1", "2", "3", "4", "5", "6", "7", "8", "9">>

Dot == "."

DigitVal(c) == (CHOOSE i \in 1..Len(Digits) : Digits[i] = c) - 1

\* int(s) for a capture of \d+
RECURSIVE StrToInt(_)
StrToInt(s) ==
    IF Len(s) = 0 THEN 0
    ELSE StrToInt(SubSeq(s, 1, Len(s) - 1)) * 10 + DigitVal(s[Len(s)])

\* str(n) for n >= 0
RECURSIVE IntToStr(_)
IntToStr(n) ==
    IF n < 10 THEN <<Digits[n + 1]>>
    ELSE IntToStr(n \div 10) \o <<Digits[(n % 10) + 1]>>

Fixed(n) == n * 10

\* float(s) for a capture of [\d.]+ : a ValueError unless s has at most one
\* dot and at least one digit; otherwise the value, in tenths.
FloatOf(s) ==
    LET dots == {i \in 1..Len(s) : s[i] = Dot}
        p    == IF dots = {} THEN Len(s) + 1 ELSE CHOOSE i \in dots : TRUE
        ip   == SubSeq(s, 1, p - 1)
        fp   == SubSeq(s, p + 1, Len(s))
    IN  IF Cardinality(dots) > 1 \/ Len(s) - Cardinality(dots) = 0
        THEN [ok |-> FALSE, value |-> 0]
        ELSE [ok |-> TRUE,
              value |-> Fixed(StrToInt(ip)) +
                        (IF Len(fp) = 0 THEN 0 ELSE DigitVal(fp[1]))]

\* a re.search result: no match, or the text of the group the source reads
NoMatch == [matched |-> FALSE, group |-> <<>>]

Match(s) == [matched |-> TRUE, group |-> s]

\* s.startswith(p)
StartsWith(s, p) == Len(s) >= Len(p) /\ SubSeq(s, 1, Len(p)) = p

\* dotted-decimal text of an address given as four octets
FormatIP(o) ==
    IntToStr(o[1]) \o <<Dot>> \o IntToStr(o[2]) \o <<Dot>> \o
    IntToStr(o[3]) \o <<Dot>> \o IntToStr(o[4])

----------------------------------------------------------------------------
(* check_connection *)

PingDefault == [success |-> FALSE, packet_loss |-> 100, avg_latency |-> Fixed(-1)]

\* value of a local that has not been assigned
NoPing == [success |-> FALSE, packet_loss |-> 0 - 1, avg_latency |-> Fixed(-1)]

success_Inclusive(loss) == loss <= 100

\* line 122
success(loss) == loss < 100

\* p.outcome : how subprocess.run ended ("ok" for any exit status, which
\* run() does not check); p.loss, p.avg : what the two re.search calls of the
\* platform's branch find in the output.
check_connection(os, p) ==
    IF p.outcome \in {"TimeoutExpired", "FileNotFoundError"}
    THEN [raised |-> None, value |-> PingDefault]
    ELSE IF p.outcome # "ok"
    THEN [raised |-> p.outcome, value |-> NoPing]
    ELSE LET loss == IF p.loss.matched THEN StrToInt(p.loss.group) ELSE 100
             avg  == IF ~p.avg.matched THEN [ok |-> TRUE, value |-> Fixed(-1)]
                     ELSE IF os = "Windows"
                          THEN [ok |-> TRUE, value |-> Fixed(StrToInt(p.avg.group))]
                          ELSE FloatOf(p.avg.group)
         IN  IF ~avg.ok
             THEN [raised |-> None, value |-> PingDefault]
             ELSE [raised |-> None,
                   value  |-> [success |-> success(loss),
                               packet_loss |-> loss,
                               avg_latency |-> avg.value]]

----------------------------------------------------------------------------
(* get_whois_info *)

Space == " "

\* s.strip()
RECURSIVE Strip(_)
Strip(s) ==
    IF Len(s) = 0 THEN s
    ELSE IF s[1] = Space THEN Strip(Tail(s))
    ELSE IF s[Len(s)] = Space THEN Strip(SubSeq(s, 1, Len(s) - 1))
    ELSE s

NA == <<"N", "/", "A">>

WhoisDefault == [org_name |-> NA, country |-> NA]

PrivatePrefixes_Short ==
    {IntToStr(192) \o <<Dot>> \o IntToStr(168) \o <<Dot>>,
     IntToStr(10) \o <<Dot>>}
    \cup {IntToStr(172) \o <<Dot>> \o IntToStr(n) \o <<Dot>> : n \in 16..30}

\* the tuple of prefixes of line 148
PrivatePrefixes ==
    {IntToStr(192) \o <<Dot>> \o IntToStr(168) \o <<Dot>>,
     IntToStr(10) \o <<Dot>>}
    \cup {IntToStr(172) \o <<Dot>> \o IntToStr(n) \o <<Dot>> : n \in 16..31}

IsPrivate(ip_address) == \E p \in PrivatePrefixes : StartsWith(ip_address, p)

\* w.outcome : how subprocess.check_output ended; w.org, w.country : what
\* the two re.search calls find in the whois output.
get_whois_info(ip_address, w) ==
    IF IsPrivate(ip_address)
    THEN [raised |-> None, value |-> WhoisDefault, called |-> FALSE]
    ELSE IF w.outcome \in {"TimeoutExpired", "FileNotFoundError", "CalledProcessError"}
    THEN [raised |-> None, value |-> WhoisDefault, called |-> TRUE]
    ELSE IF w.outcome # "ok"
    THEN [raised |-> w.outcome, value |-> WhoisDefault, called |-> TRUE]
    ELSE [raised |-> None,
          value  |-> [org_name |-> IF w.org.matched THEN Strip(w.org.group) ELSE NA,
                      country  |-> IF w.country.matched THEN Strip(w.country.group) ELSE NA],
          called |-> TRUE]

----------------------------------------------------------------------------
(* run_traceroute *)

TimedOut == <<"T", "i", "m", "e", "d", " ", "O", "u", "t">>

TracerouteFailed ==
    <<"T", "r", "a", "c", "e", "r", "o", "u", "t", "e", " ",
      "F", "a", "i", "l", "e", "d">>

TimedOutHop(n) ==
    [hop |-> n, hostname |-> "Timed Out", ip |-> TimedOut,
     latency |-> Fixed(-1), whois |-> WhoisDefault]

FailedHop ==
    [hop |-> 0 - 1, hostname |-> "Traceroute Failed", ip |-> TracerouteFailed,
     latency |-> Fixed(-1), whois |-> WhoisDefault]

\* The loop over the output lines.  A line is given by the pattern it
\* matches (kind "hop": the success pattern of the platform; "timeout": the
\* all-stars pattern; "other": neither; "blank": the empty line) and by the
\* text of the groups: hop, hostname, ip, latency.  line.whois is how the
\* whois tool answers for it.  acc carries the hops, the addresses looked up
\* and the exception that ended the loop.
RECURSIVE ParseLines(_, _, _)
ParseLines(os, lines, acc) ==
    IF Len(lines) = 0 \/ acc.raised # None THEN acc
    ELSE LET line == Head(lines)
             rest == Tail(lines)
         IN
         IF line.kind = "blank" \/ line.kind = "other"
         THEN ParseLines(os, rest, acc)
         ELSE IF line.kind = "timeout"
         THEN ParseLines(os, rest,
                  [acc EXCEPT !.hops = Append(@, TimedOutHop(StrToInt(line.hop)))])
         ELSE IF os = "Windows"
         THEN \* match(3): a match object is not callable
              [acc EXCEPT !.raised = "TypeError"]
         ELSE LET latency == FloatOf(line.latency)
                  who     == get_whois_info(line.ip, line.whois)
              IN  IF ~latency.ok
                  THEN [acc EXCEPT !.raised = "ValueError"]
                  ELSE IF who.raised # None
                  THEN [acc EXCEPT !.raised = who.raised,
                                   !.lookups = Append(@, line.ip)]
                  ELSE ParseLines(os, rest,
                           [acc EXCEPT
                               !.hops = Append(@,
                                   [hop |-> StrToInt(line.hop),
                                    hostname |-> line.hostname,
                                    ip |-> line.ip,
                                    latency |-> latency.value,
                                    whois |-> who.value]),
                               !.lookups = IF who.called
                                           THEN Append(@, line.ip) ELSE @])

Caught ==
    {"TimeoutExpired", "FileNotFoundError", "IndexError", "ValueError",
     "CalledProcessError"}

run_traceroute_NoFailureHop(os, t) ==
    IF t.outcome # "ok" \/ t.log_write # "ok"
    THEN [raised |-> IF t.outcome \in Caught \/ (t.outcome = "ok" /\ t.log_write \in Caught)
                     THEN None
                     ELSE IF t.outcome # "ok" THEN t.outcome ELSE t.log_write,
          value |-> <<>>, lookups |-> <<>>, wrote |-> FALSE]
    ELSE LET r == ParseLines(os, t.lines,
                             [hops |-> <<>>, lookups |-> <<>>, raised |-> None])
         IN  [raised |-> IF r.raised \in Caught THEN None ELSE r.raised,
              value |-> IF r.raised = None THEN r.hops ELSE <<>>,
              lookups |-> r.lookups, wrote |-> TRUE]

\* t.outcome : how subprocess.check_output ended; t.log_write : how the
\* append to traceroute_log.txt ended; t.lines : the output.
\* value: the list returned; wrote: the raw output reached the trace log.
run_traceroute(os, t) ==
    IF t.outcome # "ok"
    THEN IF t.outcome \in Caught
         THEN [raised |-> None, value |-> <<FailedHop>>, lookups |-> <<>>, wrote |-> FALSE]
         ELSE [raised |-> t.outcome, value |-> <<>>, lookups |-> <<>>, wrote |-> FALSE]
    ELSE IF t.log_write # "ok"
    THEN IF t.log_write \in Caught
         THEN [raised |-> None, value |-> <<FailedHop>>, lookups |-> <<>>, wrote |-> FALSE]
         ELSE [raised |-> t.log_write, value |-> <<>>, lookups |-> <<>>, wrote |-> FALSE]
    ELSE LET r == ParseLines(os, t.lines,
                             [hops |-> <<>>, lookups |-> <<>>, raised |-> None])
         IN  IF r.raised = None
             THEN [raised |-> None, value |-> r.hops, lookups |-> r.lookups, wrote |-> TRUE]
             ELSE IF r.raised \in Caught
             THEN [raised |-> None, value |-> Append(r.hops, FailedHop),
                   lookups |-> r.lookups, wrote |-> TRUE]
             ELSE [raised |-> r.raised, value |-> <<>>,
                   lookups |-> r.lookups, wrote |-> TRUE]

----------------------------------------------------------------------------
(* State at construction *)

NoLabels == [l \in {} |-> 0]

NoReport ==
    [time |-> 0, status |-> None, latency |-> 0, loss |-> 0,
     app_failed |-> FALSE, app |-> 0, path_shown |-> FALSE, path |-> <<>>]

Gauges ==
    [ping_latency |-> PING_LATENCY_GAUGE,
     packet_loss |-> PACKET_LOSS_GAUGE,
     hops |-> TRACEROUTE_HOPS_GAUGE,
     hop_latency |-> TRACEROUTE_HOP_LATENCY,
     bytes_received |-> bytes_received_gauge,
     bytes_transmitted |-> bytes_transmitted_gauge,
     application |-> APPLICATION_RESPONSE_TIME_GAUGE,
     packets_dropped |-> packets_dropped_gauge]

NeverSet == [ping_latency |-> 0, packet_loss |-> 0, hops |-> 0, interface |-> 0]

ZeroGauges ==
    [ping_latency |-> 0, packet_loss |-> 0, hops |-> 0, hop_latency |-> NoLabels,
     bytes_received |-> 0, bytes_transmitted |-> 0, application |-> 0,
     packets_dropped |-> 0]

NoScrape ==
    [served |-> FALSE, gauges |-> ZeroGauges, set_in |-> NeverSet,
     previous |-> NoLabels, sampled |-> FALSE, current |-> NoLabels]

gaugeVars ==
    <<PING_LATENCY_GAUGE, PACKET_LOSS_GAUGE, TRACEROUTE_HOPS_GAUGE,
      TRACEROUTE_HOP_LATENCY, bytes_received_gauge, bytes_transmitted_gauge,
      APPLICATION_RESPONSE_TIME_GAUGE, packets_dropped_gauge>>

localVars ==
    <<current_time, internet_ping_result, traceroute_results,
      application_response_time, packet_loss, hop_i, console_output>>

fileVars == <<log, trace_log, whois_calls>>

auxVars == <<set_in, published, app_before, logged, app_ok, app_fails>>

mainVars ==
    <<pc, system_os, cycle, exc, localVars, gaugeVars, fileVars, sound,
      console, scraped, auxVars>>

fnVars == <<call, ret>>

vars == <<mainVars, fnVars>>

\* Module level of the source: every Gauge starts at 0, nothing is written.
Constructed ==
    /\ pc = "start"
    /\ cycle = 0
    /\ exc = None
    /\ current_time = 0
    /\ internet_ping_result = NoPing
    /\ traceroute_results = <<>>
    /\ application_response_time = Fixed(-1)
    /\ packet_loss = 0 - 1
    /\ hop_i = 0
    /\ console_output = NoReport
    /\ PING_LATENCY_GAUGE = 0
    /\ PACKET_LOSS_GAUGE = 0
    /\ TRACEROUTE_HOPS_GAUGE = 0
    /\ TRACEROUTE_HOP_LATENCY = NoLabels
    /\ bytes_received_gauge = 0
    /\ bytes_transmitted_gauge = 0
    /\ APPLICATION_RESPONSE_TIME_GAUGE = 0
    /\ packets_dropped_gauge = 0
    /\ log = <<>>
    /\ trace_log = 0
    /\ whois_calls = {}
    /\ sound = None
    /\ console = [color |-> None, text |-> NoReport]
    /\ scraped = NoScrape
    /\ set_in = NeverSet
    /\ published = NoLabels
    /\ app_before = 0
    /\ logged = <<>>
    /\ app_ok = 0
    /\ app_fails = 0

----------------------------------------------------------------------------
(* The probes on their own: each function applied to one input *)

MaxDigits == 3

MaxLines == 3

Platforms == {"Windows", "Linux"}

RECURSIVE SeqsUpTo(_, _)
SeqsUpTo(S, n) ==
    IF n = 0 THEN {<<>>}
    ELSE LET shorter == SeqsUpTo(S, n - 1)
         IN  shorter \cup {Append(q, x) : q \in shorter, x \in S}

\* captures of (\d+) before "% packet loss" / "% loss"
LossCaptures ==
    {NoMatch} \cup {Match(q) : q \in SeqsUpTo({"0", "1", "5"}, MaxDigits) \ {<<>>}}

\* captures of the average: (\d+) on Windows, ([\d.]+) elsewhere
AvgCaptures(os) ==
    IF os = "Windows"
    THEN {NoMatch, Match(<<"7">>), Match(<<"1", "2">>)}
    ELSE {NoMatch, Match(<<"1", "2", ".", "3">>), Match(<<"7">>),
          Match(<<"1", ".", "2", ".", "3">>), Match(<<".">>)}

PingInputs(os) ==
    [outcome : {"ok"}, loss : LossCaptures, avg : AvgCaptures(os)]
    \cup [outcome : {"TimeoutExpired", "FileNotFoundError", "PermissionError"},
          loss : {NoMatch}, avg : {NoMatch}]

NoPingInput == [outcome |-> None, loss |-> NoMatch, avg |-> NoMatch]

\* octets from which the addresses under test are built
FirstOctets == {9, 10, 11, 100, 172, 192, 193}

SecondOctets == {0, 15, 16, 20, 31, 32, 167, 168, 169}

Addresses == {<<a, b, 0, 1>> : a \in FirstOctets, b \in SecondOctets}

Google == <<"G", "o", "o", "g", "l", "e">>

OrgCaptures == {NoMatch, Match(Google \o <<Space>>), Match(<<Space>>)}

CountryCaptures == {NoMatch, Match(<<"U", "S">>)}

WhoisAnswers ==
    [outcome : {"ok"}, org : OrgCaptures, country : CountryCaptures]
    \cup [outcome : {"TimeoutExpired", "FileNotFoundError", "CalledProcessError"},
          org : {NoMatch}, country : {NoMatch}]

WhoisFails == [outcome |-> "TimeoutExpired", org |-> NoMatch, country |-> NoMatch]

WhoisGoogle ==
    [outcome |-> "ok", org |-> Match(Google \o <<Space>>),
     country |-> Match(<<"U", "S">>)]

NoLine ==
    [kind |-> "blank", hop |-> <<>>, hostname |-> "", addr |-> <<0, 0, 0, 0>>,
     ip |-> <<>>, latency |-> <<>>, whois |-> WhoisFails]

HopLine(n, name, o, ms, w) ==
    [NoLine EXCEPT !.kind = "hop", !.hop = n, !.hostname = name, !.addr = o,
                   !.ip = FormatIP(o), !.latency = ms, !.whois = w]

TimeoutLine(n) == [NoLine EXCEPT !.kind = "timeout", !.hop = n]

OtherLine == [NoLine EXCEPT !.kind = "other"]

\* lines a traceroute can print
TraceLines ==
    {NoLine, OtherLine, TimeoutLine(<<"2">>), TimeoutLine(<<"0", "3">>),
     HopLine(<<"1">>, "gw", <<192, 168, 0, 1>>, <<"0", ".", "5">>, WhoisGoogle),
     HopLine(<<"2">>, "cgn", <<172, 31, 0, 1>>, <<"4">>, WhoisGoogle),
     HopLine(<<"2">>, "isp", <<172, 32, 0, 1>>, <<"5", ".", "1">>, WhoisGoogle),
     HopLine(<<"2">>, "isp", <<172, 32, 0, 1>>, <<"5", ".", "1">>, WhoisFails),
     HopLine(<<"3">>, "dns", <<8, 8, 8, 8>>, <<"1", ".", "2", ".", "3">>, WhoisGoogle)}

TraceInputs ==
    [outcome : {"ok"}, log_write : {"ok"}, lines : SeqsUpTo(TraceLines, MaxLines)]
    \cup [outcome : {"TimeoutExpired", "FileNotFoundError", "CalledProcessError"},
          log_write : {"ok"}, lines : {<<>>}]
    \cup [outcome : {"ok"}, log_write : {"PermissionError"},
          lines : SeqsUpTo(TraceLines, 1)]

NoTraceInput == [outcome |-> None, log_write |-> None, lines |-> <<>>]

NoCall ==
    [fn |-> None, os |-> None, p |-> NoPingInput, addr |-> <<0, 0, 0, 0>>,
     w |-> WhoisFails, t |-> NoTraceInput]

NoRet ==
    [done |-> FALSE, raised |-> None, ping |-> NoPing, whois |-> WhoisDefault,
     called |-> FALSE, hops |-> <<>>, lookups |-> <<>>, wrote |-> FALSE]

InitFn ==
    /\ Constructed
    /\ system_os = "Linux"
    /\ ret = NoRet
    /\ call \in
          UNION {{[NoCall EXCEPT !.fn = "check_connection", !.os = os, !.p = p] :
                      p \in PingInputs(os)} : os \in Platforms}
          \cup {[NoCall EXCEPT !.fn = "get_whois_info", !.addr = o, !.w = w] :
               o \in Addresses, w \in WhoisAnswers}
          \cup {[NoCall EXCEPT !.fn = "run_traceroute", !.os = os, !.t = t] :
               os \in Platforms, t \in TraceInputs}

CallCheckConnection ==
    /\ call.fn = "check_connection"
    /\ ~ret.done
    /\ LET r == check_connection(call.os, call.p)
       IN  ret' = [NoRet EXCEPT !.done = TRUE, !.raised = r.raised, !.ping = r.value]
    /\ UNCHANGED <<mainVars, call>>

CallGetWhoisInfo ==
    /\ call.fn = "get_whois_info"
    /\ ~ret.done
    /\ LET r == get_whois_info(FormatIP(call.addr), call.w)
       IN  ret' = [NoRet EXCEPT !.done = TRUE, !.raised = r.raised,
                                !.whois = r.value, !.called = r.called]
    /\ UNCHANGED <<mainVars, call>>

CallRunTraceroute ==
    /\ call.fn = "run_traceroute"
    /\ ~ret.done
    /\ LET r == run_traceroute(call.os, call.t)
       IN  ret' = [NoRet EXCEPT !.done = TRUE, !.raised = r.raised,
                                !.hops = r.value, !.lookups = r.lookups,
                                !.wrote = r.wrote]
    /\ UNCHANGED <<mainVars, call>>

NextFn == CallCheckConnection \/ CallGetWhoisInfo \/ CallRunTraceroute

SpecFn == InitFn /\ [][NextFn]_vars

----------------------------------------------------------------------------
(* check_application_response_time *)

\* a.outcome : how requests.get ended; a.status : the status of the response;
\* a.elapsed : (end_time - start_time) * 1000, in tenths.
check_application_response_time(a) ==
    IF a.outcome = "ok" /\ a.status < 400 THEN a.elapsed ELSE Fixed(-1)

----------------------------------------------------------------------------
(* main *)

MaxCycles == 3

\* what the probes can meet in one iteration of the loop
LoopPingInputs(os) ==
    LET avg == IF os = "Windows" THEN Match(<<"1", "2">>)
               ELSE Match(<<"1", "2", ".", "3">>)
    IN  {[outcome |-> "ok", loss |-> Match(<<"0">>), avg |-> avg],
         [outcome |-> "ok", loss |-> Match(<<"5", "0">>), avg |-> avg],
         [outcome |-> "TimeoutExpired", loss |-> NoMatch, avg |-> NoMatch]}

Gateway == HopLine(<<"1">>, "gw", <<192, 168, 0, 1>>, <<"0", ".", "5">>, WhoisFails)

GatewayAgain == HopLine(<<"1">>, "gw", <<192, 168, 0, 1>>, <<"4">>, WhoisFails)

Carrier == HopLine(<<"2">>, "isp", <<172, 32, 0, 1>>, <<"5", ".", "1">>, WhoisGoogle)

Output(lines) == [outcome |-> "ok", log_write |-> "ok", lines |-> lines]

LoopTraceInputs ==
    {Output(<<>>),
     Output(<<OtherLine, Gateway>>),
     Output(<<Gateway, Carrier, TimeoutLine(<<"3">>)>>),
     Output(<<Gateway, GatewayAgain>>),
     Output(<<TimeoutLine(<<"1">>), Carrier>>),
     [outcome |-> "TimeoutExpired", log_write |-> "ok", lines |-> <<>>],
     [outcome |-> "ok", log_write |-> "PermissionError", lines |-> <<Gateway>>]}

\* psutil.net_io_counters: the counters, a falsy result, or an exception
NetIO ==
    {[outcome |-> "ok", bytes_recv |-> 1000, bytes_sent |-> 500, dropin |-> 2, dropout |-> 1],
     [outcome |-> "falsy", bytes_recv |-> 0, bytes_sent |-> 0, dropin |-> 0, dropout |-> 0],
     [outcome |-> "Exception", bytes_recv |-> 0, bytes_sent |-> 0, dropin |-> 0, dropout |-> 0]}

AppAnswers ==
    [outcome : {"ok"}, status : {200, 302, 404, 500}, elapsed : {200, 300}]
    \cup [outcome : {"ConnectionError"}, status : {0}, elapsed : {0}]

Startup == {"start", "sound_test", "header"}

Publishing ==
    {"set_ping_latency", "set_packet_loss", "set_hops", "set_application",
     "clear", "hops"}

InLoop ==
    {"loop", "ping", "trace", "stats", "app"} \cup Publishing
    \cup {"report", "log", "sleep"}

Raise(e) ==
    /\ pc' = "crashed"
    /\ exc' = e

\* lines 317-319
StartServer ==
    /\ pc = "start"
    /\ \/ pc' = "sound_test" /\ exc' = exc
       \/ Raise("OSError")
    /\ scraped' = NoScrape
    /\ UNCHANGED <<system_os, cycle, localVars, gaugeVars, fileVars, sound,
                   console, auxVars, fnVars>>

\* lines 321-331; play_sound_mac swallows every Exception
SoundTest ==
    /\ pc = "sound_test"
    /\ pc' = "header"
    /\ sound' = "red_alert.wav"
    /\ scraped' = NoScrape
    /\ UNCHANGED <<system_os, cycle, exc, localVars, gaugeVars, fileVars,
                   console, auxVars, fnVars>>

\* lines 333-338
WriteHeader ==
    /\ pc = "header"
    /\ pc' = "loop"
    /\ log' = Append(log, [kind |-> "header", time |-> 0])
    /\ scraped' = NoScrape
    /\ UNCHANGED <<system_os, cycle, exc, localVars, gaugeVars, trace_log,
                   whois_calls, sound, console, auxVars, fnVars>>

\* lines 341-342.  The locals of the previous iteration are dead here (each
\* is assigned before it is read), so they restart from their unassigned
\* values.
BeginCycle ==
    /\ pc = "loop"
    /\ cycle < MaxCycles
    /\ pc' = "ping"
    /\ cycle' = cycle + 1
    /\ current_time' = cycle + 1
    /\ internet_ping_result' = NoPing
    /\ traceroute_results' = <<>>
    /\ application_response_time' = Fixed(-1)
    /\ packet_loss' = 0 - 1
    /\ hop_i' = 0
    /\ console_output' = NoReport
    /\ sound' = None
    /\ published' = TRACEROUTE_HOP_LATENCY
    /\ app_before' = APPLICATION_RESPONSE_TIME_GAUGE
    /\ logged' = <<>>
    /\ scraped' = NoScrape
    /\ UNCHANGED <<system_os, exc, gaugeVars, fileVars, console, set_in,
                   app_ok, app_fails, fnVars>>

\* line 345
Ping ==
    /\ pc = "ping"
    /\ \E p \in LoopPingInputs(system_os) :
          LET r == check_connection(system_os, p)
          IN  IF r.raised # None
              THEN Raise(r.raised) /\ UNCHANGED internet_ping_result
              ELSE /\ internet_ping_result' = r.value
                   /\ pc' = "trace"
                   /\ exc' = exc
    /\ scraped' = NoScrape
    /\ UNCHANGED <<system_os, cycle, current_time, traceroute_results,
                   application_response_time, packet_loss, hop_i,
                   console_output, gaugeVars, fileVars, sound, console,
                   auxVars, fnVars>>

Range(q) == {q[i] : i \in 1..Len(q)}

\* line 346
Trace ==
    /\ pc = "trace"
    /\ \E t \in LoopTraceInputs :
          LET r == run_traceroute(system_os, t)
          IN  /\ whois_calls' = whois_calls \cup Range(r.lookups)
              /\ trace_log' = IF r.wrote THEN trace_log + 1 ELSE trace_log
              /\ IF r.raised # None
                 THEN Raise(r.raised) /\ UNCHANGED traceroute_results
                 ELSE /\ traceroute_results' = r.value
                      /\ pc' = "stats"
                      /\ exc' = exc
    /\ scraped' = NoScrape
    /\ UNCHANGED <<system_os, cycle, current_time, internet_ping_result,
                   application_response_time, packet_loss, hop_i,
                   console_output, gaugeVars, log, sound, console,
                   auxVars, fnVars>>

\* line 347: get_network_interface_stats
Stats ==
    /\ pc = "stats"
    /\ \E net_io \in NetIO :
          IF net_io.outcome = "ok"
          THEN /\ bytes_received_gauge' = net_io.bytes_recv
               /\ bytes_transmitted_gauge' = net_io.bytes_sent
               /\ packets_dropped_gauge' = net_io.dropin + net_io.dropout
          ELSE /\ bytes_received_gauge' = 0
               /\ bytes_transmitted_gauge' = 0
               /\ packets_dropped_gauge' = 0
    /\ set_in' = [set_in EXCEPT !.interface = cycle]
    /\ pc' = "app"
    /\ scraped' = NoScrape
    /\ UNCHANGED <<system_os, cycle, exc, localVars, PING_LATENCY_GAUGE,
                   PACKET_LOSS_GAUGE, TRACEROUTE_HOPS_GAUGE,
                   TRACEROUTE_HOP_LATENCY, APPLICATION_RESPONSE_TIME_GAUGE,
                   fileVars, sound, console, published, app_before, logged,
                   app_ok, app_fails, fnVars>>

\* line 348
App ==
    /\ pc = "app"
    /\ \E a \in AppAnswers :
          LET r == check_application_response_time(a)
          IN  /\ application_response_time' = r
              /\ app_ok' = IF r # Fixed(-1) THEN r ELSE app_ok
              /\ app_fails' = IF r # Fixed(-1) THEN 0 ELSE app_fails + 1
    /\ pc' = "set_ping_latency"
    /\ scraped' = NoScrape
    /\ UNCHANGED <<system_os, cycle, exc, current_time, internet_ping_result,
                   traceroute_results, packet_loss, hop_i, console_output,
                   gaugeVars, fileVars, sound, console, set_in, published,
                   app_before, logged, fnVars>>

\* lines 365-368: the label values of a hop
LabelOf(hop) == [hop |-> IntToStr(hop.hop), ip |-> hop.ip, hostname |-> hop.hostname]

\* Gauge.labels(l).set(v)
SetLabel(g, l, v) == [x \in DOMAIN g \cup {l} |-> IF x = l THEN v ELSE g[x]]

\* the labelled series a list of hops stands for: one per label of a hop
\* with a latency, holding the latency of the last hop with that label
SeriesOf(hops) ==
    LET known == {i \in 1..Len(hops) : hops[i].latency # Fixed(-1)}
    IN  [l \in {LabelOf(hops[i]) : i \in known} |->
            hops[CHOOSE i \in known :
                     /\ LabelOf(hops[i]) = l
                     /\ \A j \in known : LabelOf(hops[j]) = l => j <= i].latency]

Step(from, to) ==
    /\ pc = from
    /\ pc' = to
    /\ scraped' = NoScrape

\* lines 351 and 354
SetPingLatency ==
    /\ Step("set_ping_latency", "set_packet_loss")
    /\ packet_loss' = internet_ping_result.packet_loss
    /\ PING_LATENCY_GAUGE' = internet_ping_result.avg_latency
    /\ set_in' = [set_in EXCEPT !.ping_latency = cycle]
    /\ UNCHANGED <<system_os, cycle, exc, current_time, internet_ping_result,
                   traceroute_results, application_response_time, hop_i,
                   console_output, PACKET_LOSS_GAUGE, TRACEROUTE_HOPS_GAUGE,
                   TRACEROUTE_HOP_LATENCY, bytes_received_gauge,
                   bytes_transmitted_gauge, APPLICATION_RESPONSE_TIME_GAUGE,
                   packets_dropped_gauge, fileVars, sound, console, published,
                   app_before, logged, app_ok, app_fails, fnVars>>

\* line 355
SetPacketLoss ==
    /\ Step("set_packet_loss", "set_hops")
    /\ PACKET_LOSS_GAUGE' = packet_loss
    /\ set_in' = [set_in EXCEPT !.packet_loss = cycle]
    /\ UNCHANGED <<system_os, cycle, exc, localVars, PING_LATENCY_GAUGE,
                   TRACEROUTE_HOPS_GAUGE, TRACEROUTE_HOP_LATENCY,
                   bytes_received_gauge, bytes_transmitted_gauge,
                   APPLICATION_RESPONSE_TIME_GAUGE, packets_dropped_gauge,
                   fileVars, sound, console, published, app_before, logged,
                   app_ok, app_fails, fnVars>>

\* line 356
SetHops ==
    /\ Step("set_hops", "set_application")
    /\ TRACEROUTE_HOPS_GAUGE' = Len(traceroute_results)
    /\ set_in' = [set_in EXCEPT !.hops = cycle]
    /\ UNCHANGED <<system_os, cycle, exc, localVars, PING_LATENCY_GAUGE,
                   PACKET_LOSS_GAUGE, TRACEROUTE_HOP_LATENCY,
                   bytes_received_gauge, bytes_transmitted_gauge,
                   APPLICATION_RESPONSE_TIME_GAUGE, packets_dropped_gauge,
                   fileVars, sound, console, published, app_before, logged,
                   app_ok, app_fails, fnVars>>

SetApplication_Always ==
    /\ Step("set_application", "clear")
    /\ APPLICATION_RESPONSE_TIME_GAUGE' = application_response_time
    /\ UNCHANGED <<system_os, cycle, exc, localVars, PING_LATENCY_GAUGE,
                   PACKET_LOSS_GAUGE, TRACEROUTE_HOPS_GAUGE,
                   TRACEROUTE_HOP_LATENCY, bytes_received_gauge,
                   bytes_transmitted_gauge, packets_dropped_gauge, fileVars,
                   sound, console, auxVars, fnVars>>

\* lines 358-359
SetApplication ==
    /\ Step("set_application", "clear")
    /\ APPLICATION_RESPONSE_TIME_GAUGE' =
          IF application_response_time # Fixed(-1)
          THEN application_response_time
          ELSE APPLICATION_RESPONSE_TIME_GAUGE
    /\ UNCHANGED <<system_os, cycle, exc, localVars, PING_LATENCY_GAUGE,
                   PACKET_LOSS_GAUGE, TRACEROUTE_HOPS_GAUGE,
                   TRACEROUTE_HOP_LATENCY, bytes_received_gauge,
                   bytes_transmitted_gauge, packets_dropped_gauge, fileVars,
                   sound, console, auxVars, fnVars>>

ClearHops_Skipped ==
    /\ Step("clear", "hops")
    /\ hop_i' = 1
    /\ UNCHANGED <<system_os, cycle, exc, current_time, internet_ping_result,
                   traceroute_results, application_response_time, packet_loss,
                   console_output, gaugeVars, fileVars, sound, console, auxVars,
                   fnVars>>

\* line 362, and the entry of the loop of line 363
ClearHops ==
    /\ Step("clear", "hops")
    /\ TRACEROUTE_HOP_LATENCY' = NoLabels
    /\ hop_i' = 1
    /\ UNCHANGED <<system_os, cycle, exc, current_time, internet_ping_result,
                   traceroute_results, application_response_time, packet_loss,
                   console_output, PING_LATENCY_GAUGE, PACKET_LOSS_GAUGE,
                   TRACEROUTE_HOPS_GAUGE, bytes_received_gauge,
                   bytes_transmitted_gauge, APPLICATION_RESPONSE_TIME_GAUGE,
                   packets_dropped_gauge, fileVars, sound, console, auxVars,
                   fnVars>>

\* lines 363-369: one iteration of the loop, or its exit
SetHop ==
    /\ pc = "hops"
    /\ scraped' = NoScrape
    /\ IF hop_i <= Len(traceroute_results)
       THEN LET hop == traceroute_results[hop_i]
            IN  /\ TRACEROUTE_HOP_LATENCY' =
                      IF hop.latency # Fixed(-1)
                      THEN SetLabel(TRACEROUTE_HOP_LATENCY, LabelOf(hop), hop.latency)
                      ELSE TRACEROUTE_HOP_LATENCY
                /\ hop_i' = hop_i + 1
                /\ pc' = "hops"
       ELSE /\ pc' = "report"
            /\ UNCHANGED <<TRACEROUTE_HOP_LATENCY, hop_i>>
    /\ UNCHANGED <<system_os, cycle, exc, current_time, internet_ping_result,
                   traceroute_results, application_response_time, packet_loss,
                   console_output, PING_LATENCY_GAUGE, PACKET_LOSS_GAUGE,
                   TRACEROUTE_HOPS_GAUGE, bytes_received_gauge,
                   bytes_transmitted_gauge, APPLICATION_RESPONSE_TIME_GAUGE,
                   packets_dropped_gauge, fileVars, sound, console, auxVars,
                   fnVars>>

\* lines 406-413: the lines of one hop
HopText(hop) ==
    [hop |-> hop.hop, hostname |-> hop.hostname, ip |-> hop.ip,
     latency_shown |-> hop.latency # Fixed(-1),
     latency |-> IF hop.latency # Fixed(-1) THEN hop.latency ELSE 0,
     owner_shown |-> hop.whois.org_name # NA,
     org_name |-> IF hop.whois.org_name # NA THEN hop.whois.org_name ELSE <<>>,
     country |-> IF hop.whois.org_name # NA THEN hop.whois.country ELSE <<>>]

\* lines 385-413
Render(time, ping, loss, app, hops) ==
    [time |-> time,
     status |-> IF ping.success THEN "STABLE" ELSE "DOWN",
     latency |-> IF ping.success THEN ping.avg_latency ELSE 0,
     loss |-> loss,
     app_failed |-> app = Fixed(-1),
     app |-> IF app # Fixed(-1) THEN app ELSE 0,
     path_shown |-> hops # <<>>,
     path |-> [i \in 1..Len(hops) |-> HopText(hops[i])]]

\* lines 371-415: severity, alert thread, report, print
Report ==
    /\ Step("report", "log")
    /\ sound' = IF packet_loss = 0 THEN sound
                ELSE IF packet_loss > 0 /\ packet_loss < 100 THEN "yellow_alert.wav"
                ELSE "red_alert.wav"
    /\ console_output' = Render(current_time, internet_ping_result, packet_loss,
                                application_response_time, traceroute_results)
    /\ console' = [color |-> IF packet_loss = 0 THEN "GREEN"
                             ELSE IF packet_loss > 0 /\ packet_loss < 100 THEN "YELLOW"
                             ELSE "RED",
                   text |-> console_output']
    /\ UNCHANGED <<system_os, cycle, exc, current_time, internet_ping_result,
                   traceroute_results, application_response_time, packet_loss,
                   hop_i, gaugeVars, fileVars, auxVars, fnVars>>

ShouldLog_LossOnly(loss, hops) == loss > 0

\* line 418
ShouldLog(loss, hops) ==
    loss > 0 \/ \E i \in 1..Len(hops) : hops[i].latency = Fixed(-1)

\* lines 417-420
LogWrite ==
    /\ Step("log", "sleep")
    /\ IF ShouldLog(packet_loss, traceroute_results)
       THEN /\ log' = Append(log, [kind |-> "block", time |-> console_output.time])
            /\ logged' = Append(logged, console_output)
       ELSE UNCHANGED <<log, logged>>
    /\ UNCHANGED <<system_os, cycle, exc, localVars, gaugeVars, trace_log,
                   whois_calls, sound, console, set_in, published, app_before,
                   app_ok, app_fails, fnVars>>

\* line 423
Sleep ==
    /\ Step("sleep", "loop")
    /\ UNCHANGED <<system_os, cycle, exc, localVars, gaugeVars, fileVars,
                   sound, console, auxVars, fnVars>>

Interrupt_Silent ==
    /\ pc \in Startup \cup InLoop
    /\ IF pc \in InLoop
       THEN pc' = "stopped" /\ exc' = exc
       ELSE Raise("KeyboardInterrupt")
    /\ scraped' = NoScrape
    /\ UNCHANGED <<system_os, cycle, localVars, gaugeVars, fileVars, sound,
                   console, auxVars, fnVars>>

\* lines 425-428: KeyboardInterrupt in the main thread.  Inside the try it
\* reaches the handler, which appends the last line; before the try
\* nothing catches it.
Interrupt ==
    /\ pc \in Startup \cup InLoop
    /\ IF pc \in InLoop
       THEN /\ log' = Append(log, [kind |-> "stopped", time |-> cycle])
            /\ pc' = "stopped"
            /\ exc' = exc
       ELSE /\ Raise("KeyboardInterrupt")
            /\ log' = log
    /\ scraped' = NoScrape
    /\ UNCHANGED <<system_os, cycle, localVars, gaugeVars, trace_log,
                   whois_calls, sound, console, auxVars, fnVars>>

\* a scrape served by the thread of start_http_server: it reads the gauges
\* as they stand
Scrape ==
    /\ pc \in (Startup \cup InLoop) \ {"start"}
    /\ ~scraped.served
    /\ scraped' = [served |-> TRUE, gauges |-> Gauges, set_in |-> set_in,
                   previous |-> published,
                   sampled |-> cycle >= 1 /\ pc \notin {"ping", "trace"},
                   current |-> SeriesOf(traceroute_results)]
    /\ UNCHANGED <<pc, system_os, cycle, exc, localVars, gaugeVars, fileVars,
                   sound, console, auxVars, fnVars>>

Init ==
    /\ Constructed
    /\ system_os \in Platforms
    /\ call = NoCall
    /\ ret = NoRet

Next ==
    \/ StartServer
    \/ SoundTest
    \/ WriteHeader
    \/ BeginCycle
    \/ Ping
    \/ Trace
    \/ Stats
    \/ App
    \/ SetPingLatency
    \/ SetPacketLoss
    \/ SetHops
    \/ SetApplication
    \/ ClearHops
    \/ SetHop
    \/ Report
    \/ LogWrite
    \/ Sleep
    \/ Interrupt
    \/ Scrape

Spec == Init /\ [][Next]_vars

----------------------------------------------------------------------------
(* Properties of the probes (SpecFn) *)

Returned(fn) == call.fn = fn /\ ret.done /\ ret.raised = None

CommandFailed(outcome) ==
    outcome \in {"TimeoutExpired", "FileNotFoundError", "CalledProcessError"}

Decoration(line) == line.kind \in {"blank", "other"}

PingFailed == call.p.outcome \in {"TimeoutExpired", "FileNotFoundError"}

C4_LossIsPercentage ==
    Returned("check_connection") =>
        ret.ping.packet_loss >= 0 /\ ret.ping.packet_loss <= 100

\* membership in 10.0.0.0/8, 172.16.0.0/12 or 192.168.0.0/16, on the octets
InPrivateRange(o) ==
    \/ o[1] = 10
    \/ o[1] = 172 /\ o[2] >= 16 /\ o[2] <= 31
    \/ o[1] = 192 /\ o[2] = 168

LookupFailed(w) ==
    \/ w.outcome \in {"TimeoutExpired", "FileNotFoundError", "CalledProcessError"}
    \/ w.outcome = "ok" /\ ~w.org.matched /\ ~w.country.matched

\* C10: no address of 10.0.0.0/8, 172.16.0.0/12 or 192.168.0.0/16 is handed
\* to the whois tool and each gets the default ownership; a failed lookup
\* gives the default; in a traceroute the timed-out hops and the failure hop
\* carry the default ownership and are never looked up.
C10_NoLookupForPrivate ==
    /\ Returned("get_whois_info") /\ InPrivateRange(call.addr) =>
          ~ret.called /\ ret.whois = WhoisDefault
    /\ call.fn = "get_whois_info" /\ ret.done /\ LookupFailed(call.w) =>
          ret.raised = None /\ ret.whois = WhoisDefault
    /\ call.fn = "run_traceroute" /\ ret.done =>
          /\ \A i \in 1..Len(call.t.lines) :
                InPrivateRange(call.t.lines[i].addr) =>
                    call.t.lines[i].ip \notin Range(ret.lookups)
          /\ \A i \in 1..Len(ret.lookups) :
                \E j \in 1..Len(call.t.lines) :
                    /\ call.t.lines[j].kind = "hop"
                    /\ call.t.lines[j].ip = ret.lookups[i]
          /\ \A i \in 1..Len(ret.hops) :
                \/ ret.hops[i].latency # Fixed(-1)
                \/ ret.hops[i].whois = WhoisDefault
          /\ \A i \in 1..Len(ret.hops) :
                \A j \in 1..Len(call.t.lines) :
                    /\ call.t.lines[j].ip = ret.hops[i].ip
                    /\ InPrivateRange(call.t.lines[j].addr)
                    => ret.hops[i].whois = WhoisDefault

C10_PrivateSkipped ==
    /\ Returned("get_whois_info")
    /\ call.addr[1] = 172 /\ call.addr[2] = 31
    /\ call.w = WhoisGoogle
    /\ ~ret.called
    /\ ret.whois = WhoisDefault

----------------------------------------------------------------------------
(* Properties of the loop (Spec) *)

\* C1 as stated: no failure of a probe ends the loop; once the first
\* iteration has begun the process ends only by the interrupt.
C1_NoProbeEndsLoop ==
    cycle >= 1 => pc # "crashed"

AllSetIn(n) ==
    /\ set_in.ping_latency = n
    /\ set_in.packet_loss = n
    /\ set_in.hops = n
    /\ set_in.interface = n

\* C5 as stated: a scrape sees the complete hop series of the previous
\* iteration or the complete hop series of the current one, and scalar
\* gauges that were all set in the same iteration.
C5_ScrapeSeesOneCycle ==
    scraped.served =>
        /\ \/ scraped.gauges.hop_latency = scraped.previous
           \/ scraped.sampled /\ scraped.gauges.hop_latency = scraped.current
        /\ scraped.set_in.ping_latency = scraped.set_in.packet_loss
        /\ scraped.set_in.packet_loss = scraped.set_in.hops
        /\ scraped.set_in.hops = scraped.set_in.interface

Published == pc \in {"report", "log", "sleep"}

Unknown(hops) == {i \in 1..Len(hops) : hops[i].latency = Fixed(-1)}

BlocksOf(n) == {i \in 1..Len(log) : log[i].kind = "block" /\ log[i].time = n}

\* C7: an iteration appends its report to the log if and only if the packet
\* loss is above 0 or a hop has no latency; it then appends one block, the
\* text printed on the console; otherwise it leaves the log as it was.
C7_LoggedIffDegraded ==
    pc = "sleep" =>
        IF \/ internet_ping_result.packet_loss > 0
           \/ Unknown(traceroute_results) # {}
        THEN /\ logged = <<console.text>>
             /\ Cardinality(BlocksOf(current_time)) = 1
             /\ log[Len(log)] = [kind |-> "block", time |-> current_time]
        ELSE /\ logged = <<>>
             /\ BlocksOf(current_time) = {}

C7_LoggedForTimedOutHop ==
    /\ pc = "sleep"
    /\ internet_ping_result.packet_loss = 0
    /\ Unknown(traceroute_results) # {}
    /\ logged = <<console.text>>
    /\ console.color = "GREEN"

\* C8: when the application probe fails the application gauge is not
\* written: it keeps the latency of the last successful probe through any
\* run of failures, never shows the -1 of a failure, and the other gauges
\* are set in that iteration all the same.
C8_ApplicationGaugeKept ==
    /\ APPLICATION_RESPONSE_TIME_GAUGE # Fixed(-1)
    /\ pc \in {"clear", "hops", "report", "log", "sleep"} =>
          APPLICATION_RESPONSE_TIME_GAUGE = app_ok
    /\ pc \in Publishing \cup {"report", "log", "sleep"}
          /\ application_response_time = Fixed(-1) =>
          APPLICATION_RESPONSE_TIME_GAUGE = app_before
    /\ Published /\ application_response_time = Fixed(-1) =>
          /\ AllSetIn(cycle)
          /\ PING_LATENCY_GAUGE = internet_ping_result.avg_latency
          /\ PACKET_LOSS_GAUGE = internet_ping_result.packet_loss
          /\ TRACEROUTE_HOPS_GAUGE = Len(traceroute_results)
          /\ TRACEROUTE_HOP_LATENCY = SeriesOf(traceroute_results)

C8_KeptThroughTwoFailures ==
    /\ pc = "sleep"
    /\ app_fails = 2
    /\ APPLICATION_RESPONSE_TIME_GAUGE = 300
    /\ application_response_time = Fixed(-1)

Stops(i) == log[i].kind = "stopped"

\* C9: an interrupt during an iteration (sampling, publishing, rendering or
\* sleeping) appends one "Stopped at" line, the only one and the last line
\* of a log that begins with the header; the process then ends without an
\* exception, begins no iteration and writes nothing more.
C9_StoppedLineIsLast ==
    /\ [](pc = "stopped" =>
            /\ exc = None
            /\ log[1].kind = "header"
            /\ Stops(Len(log))
            /\ \A i \in 1..Len(log) : Stops(i) => i = Len(log))
    /\ [](pc # "stopped" => \A i \in 1..Len(log) : ~Stops(i))
    /\ [][/\ pc \in InLoop /\ pc' \notin InLoop /\ pc' # "crashed" =>
               pc' = "stopped" /\ log' = Append(log, [kind |-> "stopped", time |-> cycle])
          /\ pc = "stopped" => UNCHANGED mainVars]_vars

C9_StoppedWhilePublishing ==
    /\ pc = "stopped"
    /\ cycle = 2
    /\ set_in.ping_latency = 2
    /\ set_in.hops = 1
    /\ BlocksOf(1) # {}

====
